---- MODULE Spec2Model ----
(***************************************************************************)
(* Model of the hero-services carousel of src/src/motion.js and of its     *)
(* shape-morph engine (normalizePoints, normalizeWinding, rotateToMatch,   *)
(* the morph tween), and of the slide scroller of the same file.           *)
(*                                                                         *)
(* Numbers.  A JavaScript number is a binary floating-point value: every   *)
(* arithmetic operation returns the exact result rounded to the nearest    *)
(* value with a 53-bit significand, ties to even.  The model keeps the     *)
(* same arithmetic with a Precision-bit significand.  A number is held as  *)
(* an integer count of 1/Unit, so 1.0 is Unit.                             *)
(***************************************************************************)
EXTENDS Integers, Sequences, FiniteSets, TLC

\* ------------------------------------------------------------ bounds ----
Precision == 4      \* significand bits of the modelled number format
FracBits == 4       \* binary digits kept below 1.0
MaxLen == 4         \* longest point sequence given to normalizeWinding
MaxPairLen == 3     \* longest from/to pair given to rotateToMatch, onUpdate
MaxShapes == 3      \* largest shape library
MaxCards == 3       \* most cards in the carousel track
TSteps == 2         \* frames a morph tween needs to run from t = 0 to t = 1
MaxSamples == 4     \* largest sampleCount given to normalizePoints
MaxScreens == 3     \* most [data-screen] elements of the page
TickMs == 425       \* milliseconds by which the model lets time pass
SnapTickMs == 50
MaxTouchTimers == 1
MaxExits == 2
MaxMonths == 2
MaxDays == 2

Unit == 2 ^ FracBits
One == Unit

\* --------------------------------------------------- number arithmetic ----
Abs(n) == IF n < 0 THEN 0 - n ELSE n

\* spacing of representable values around magnitude a, never below qmin
RECURSIVE Quantum(_, _)
Quantum(a, q) == IF a < (2 ^ Precision) * q THEN q ELSE Quantum(a, 2 * q)

\* n rounded to the nearest multiple of q, ties to the even multiple
RoundEven(n, q) ==
  LET lo == (n \div q) * q
      r == n - lo
  IN  IF 2 * r < q THEN lo
      ELSE IF 2 * r > q THEN lo + q
      ELSE IF (lo \div q) % 2 = 0 THEN lo ELSE lo + q

Fl(n) == RoundEven(n, Quantum(Abs(n), 1))

Add(x, y) == Fl(x + y)
Sub(x, y) == Fl(x - y)
Mul(x, y) == RoundEven(x * y, Quantum(Abs(x * y), Unit)) \div Unit
Half(x) == RoundEven(x, 2) \div 2

\* sentinels for the non-finite values the code produces
Infinity == -1
NaN == -1000000
NegInfinity == -2000000
NonFinite == {NaN, Infinity, NegInfinity}

\* spacing of representable values around the magnitude of anum / den
RECURSIVE QuantumRat(_, _, _)
QuantumRat(anum, den, q) ==
  IF anum < (2 ^ Precision) * q * den THEN q ELSE QuantumRat(anum, den, 2 * q)

\* num / den (den > 0) rounded to the nearest multiple of q, ties to even
RoundRat(num, den, q) ==
  LET lo == (num \div (den * q)) * q
      r == num - (lo * den)
  IN  IF 2 * r < q * den THEN lo
      ELSE IF 2 * r > q * den THEN lo + q
      ELSE IF (lo \div q) % 2 = 0 THEN lo ELSE lo + q

\* x / y: NaN for 0 / 0, an infinity for any other division by zero
Div(x, y) ==
  IF y = 0 THEN (IF x = 0 THEN NaN ELSE IF x > 0 THEN Infinity ELSE NegInfinity)
  ELSE LET num == IF y > 0 THEN x * Unit ELSE 0 - (x * Unit)
           den == Abs(y)
       IN  RoundRat(num, den, QuantumRat(Abs(num), den, 1))

\* x * y for a finite positive y: a non-finite x stays what it is
MulF(x, y) == IF x \in NonFinite THEN x ELSE Mul(x, y)

\* The SVG interface types of getTotalLength's result and of
\* getPointAtLength's argument are single-precision floats, of less than
\* half the significand of a number.
SingleBits == Precision \div 2
RECURSIVE QuantumSingle(_, _)
QuantumSingle(a, q) ==
  IF a < (2 ^ SingleBits) * q THEN q ELSE QuantumSingle(a, 2 * q)
Single(n) == RoundEven(n, QuantumSingle(Abs(n), 1))

\* ------------------------------------------------------------ geometry ----
Reverse(s) == [i \in 1..Len(s) |-> s[Len(s) + 1 - i]]

\* polygonArea: the shoelace sum accumulated in index order, then halved
RECURSIVE AreaSum(_, _, _)
AreaSum(pts, i, sum) ==
  IF i > Len(pts) THEN sum
  ELSE LET p == pts[i]
           q == pts[(i % Len(pts)) + 1]
       IN  AreaSum(pts, i + 1,
                   Add(sum, Sub(Mul(p[1], q[2]), Mul(q[1], p[2]))))

polygonArea(pts) == Half(AreaSum(pts, 1, 0))

isClockwise(pts) == polygonArea(pts) < 0

normalizeWinding_keepOnMismatch(pts, clockwise) ==
  IF isClockwise(pts) # clockwise THEN pts ELSE Reverse(pts)

normalizeWinding(pts, clockwise) ==
  IF isClockwise(pts) = clockwise THEN pts ELSE Reverse(pts)

Rotated_noWrap(toPts, offset, len) ==
  [i \in 1..Len(toPts) |->
     toPts[(IF i - 1 + offset < len THEN i - 1 + offset ELSE len - 1) + 1]]

\* toPts[(i + offset) % len] with 0-based i; sequences here are 1-based
Rotated(toPts, offset, len) ==
  [i \in 1..Len(toPts) |-> toPts[((i - 1 + offset) % len) + 1]]

\* the inner loop of rotateToMatch: score accumulated over i = 0..len-1
RECURSIVE ScoreSum(_, _, _, _, _)
ScoreSum(fromPts, toPts, offset, i, score) ==
  IF i > Len(fromPts) THEN score
  ELSE LET f == fromPts[i]
           t == toPts[((i - 1 + offset) % Len(fromPts)) + 1]
           dx == Sub(f[1], t[1])
           dy == Sub(f[2], t[2])
       IN  ScoreSum(fromPts, toPts, offset, i + 1,
                    Add(score, Add(Mul(dx, dx), Mul(dy, dy))))

Score(fromPts, toPts, offset) == ScoreSum(fromPts, toPts, offset, 1, 0)

Better_orEqual(score, bestScore) == bestScore = Infinity \/ score <= bestScore

\* score < bestScore, bestScore starting at Infinity
Better(score, bestScore) == bestScore = Infinity \/ score < bestScore

\* the outer loop of rotateToMatch: ascending scan keeping the first minimum
RECURSIVE ScanOffsets(_, _, _, _, _)
ScanOffsets(fromPts, toPts, offset, bestOffset, bestScore) ==
  IF offset >= Len(fromPts) THEN bestOffset
  ELSE LET score == Score(fromPts, toPts, offset)
       IN  IF Better(score, bestScore)
           THEN ScanOffsets(fromPts, toPts, offset + 1, offset, score)
           ELSE ScanOffsets(fromPts, toPts, offset + 1, bestOffset, bestScore)

BestOffset(fromPts, toPts) == ScanOffsets(fromPts, toPts, 0, 0, Infinity)

rotateToMatch(fromPts, toPts) ==
  Rotated(toPts, BestOffset(fromPts, toPts), Len(fromPts))

Interp_swapped(from, to, t) ==
  [i \in 1..Len(from) |->
     << Add(from[i][1], Mul(Sub(from[i][1], to[i][1]), t)),
        Add(from[i][2], Mul(Sub(from[i][2], to[i][2]), t)) >>]

\* the point set computed by the tween's onUpdate for morphState.t = t
Interp(from, to, t) ==
  [i \in 1..Len(from) |->
     << Add(from[i][1], Mul(Sub(to[i][1], from[i][1]), t)),
        Add(from[i][2], Mul(Sub(to[i][2], from[i][2]), t)) >>]

\* Number.prototype.toFixed: the nearest value with a fixed number of
\* fractional digits, the larger one on a tie; the model keeps one binary
\* digit.  The result is the count of such digits' units.
FixedUnit == Unit \div 2
ToFixed(x) ==
  IF x >= 0 THEN (2 * x + FixedUnit) \div (2 * FixedUnit)
  ELSE 0 - ((2 * (0 - x) + FixedUnit) \div (2 * FixedUnit))

pointsToPath_open(pts) ==
  IF Len(pts) = 0 THEN <<>>
  ELSE [i \in 1..Len(pts) |->
          <<IF i = 1 THEN "M" ELSE "L", ToFixed(pts[i][1]),
            ToFixed(pts[i][2])>>]

\* the d attribute as the sequence of its commands, '' being <<>>
pointsToPath(pts) ==
  IF Len(pts) = 0 THEN <<>>
  ELSE [i \in 1..(Len(pts) + 1) |->
          IF i = 1 THEN <<"M", ToFixed(pts[1][1]), ToFixed(pts[1][2])>>
          ELSE IF i <= Len(pts)
               THEN <<"L", ToFixed(pts[i][1]), ToFixed(pts[i][2])>>
               ELSE <<"Z">>]

\* ------------------------------------------------------- path sampler ----
\* An outline is a rectangle [x, y, w, h] drawn from its corner (x, y):
\* right along the top, down, left along the bottom and up again.
getTotalLength(o) == Single(2 * (o.w + o.h))

getBBox(o) == [x |-> o.x, y |-> o.y, width |-> o.w, height |-> o.h]

\* the point of the path at distance s from its start, s clamped to the path
pointAtExact(o, s) ==
  IF s <= o.w THEN <<o.x + s, o.y>>
  ELSE IF s <= o.w + o.h THEN <<o.x + o.w, o.y + (s - o.w)>>
  ELSE IF s <= (2 * o.w) + o.h THEN <<o.x + o.w - (s - o.w - o.h), o.y + o.h>>
  ELSE IF s <= 2 * (o.w + o.h)
       THEN <<o.x, o.y + o.h - (s - (2 * o.w) - o.h)>>
  ELSE <<o.x, o.y>>

getPointAtLength(o, distance) ==
  LET d == Single(distance)
      s == IF d < 0 THEN 0
           ELSE IF d > getTotalLength(o) THEN getTotalLength(o) ELSE d
      p == pointAtExact(o, s)
  IN  <<Fl(p[1]), Fl(p[2])>>

\* the literal 200 as the number format holds it
Frame == Fl(200 * Unit)

SampleLength_overCount(len, i, count) == Div(Mul(len, i * Unit), count * Unit)

\* (len * i) / (sampleCount - 1)
SampleLength(len, i, count) == Div(Mul(len, i * Unit), (count - 1) * Unit)

normCoord_noOrigin(p, origin, extent) == MulF(Div(p, extent), Frame)

\* ((p - bbox origin) / bbox extent) * 200
normCoord(p, origin, extent) == MulF(Div(Sub(p, origin), extent), Frame)

SampleLengths(o, count) ==
  [k \in 1..count |-> SampleLength(getTotalLength(o), k - 1, count)]

normalizePoints(o, count) ==
  LET bbox == getBBox(o)
  IN  [k \in 1..count |->
         LET p == getPointAtLength(o, SampleLengths(o, count)[k])
         IN  << normCoord(p[1], bbox.x, bbox.width),
                normCoord(p[2], bbox.y, bbox.height) >>]

\* ------------------------------------------------------- input domains ----
\* Big is representable, Big - 1 is not: the smallest pair of coordinates
\* whose difference is rounded.
Big == (2 ^ Precision) + 2
Pt(x, y) == <<x * Unit, y * Unit>>

WindPoints == {Pt(0, 0), Pt(0, Big), Pt(Big, 0), Pt(1, Big), Pt(0, 1)}
PairPoints == {Pt(0, 0), Pt(Big, 0), Pt(1, Big)}

\* rectangles, some of them without width or without height
Outlines ==
  {[x |-> a * Unit, y |-> b * Unit, w |-> c * Unit, h |-> d * Unit] :
     a \in {0, 1}, b \in {0, 1}, c \in {0, 1, Big}, d \in {0, 1, Big}}

SeqsUpTo(S, n) == UNION {[1..k -> S] : k \in 0..n}
TValue(q) == RoundEven(q * Unit, TSteps) \div TSteps
TValues == {TValue(q) : q \in 0..TSteps}

\* sampled outlines (the output of normalizePoints), both windings
RawCcw == <<Pt(0, 0), Pt(Big, 0), Pt(0, Big)>>
RawFlat == <<Pt(0, 1), Pt(Big, 0), Pt(0, 0)>>
\* the same winding from another starting corner, so that alignment against
\* the other outlines picks a non-zero offset
RawCcw2 == <<Pt(16, 1), Pt(1, 16), Pt(1, 1)>>
RawShapes == {RawCcw, RawFlat, RawCcw2}
\* libraries of distinct outlines, in any order
Libraries ==
  UNION {{l \in [1..k -> RawShapes] :
            \A i \in 1..k : \A j \in 1..k : l[i] = l[j] => i = j}
         : k \in 0..MaxShapes}

\* ---------------------------------------------------------------- state ----
VARIABLES
  hasShape,      \* the .hero-services__shape-path element exists
  shapesPoints,  \* morphData.shapesPoints, the shape library
  shapeIndex,    \* cursor into the library
  morphState,    \* [t |-> progress of the running morph]
  morphTween,    \* "null", "live" (the newest entry of tweens) or "done"
  tweens,        \* morph tweens gsap still runs, oldest first
  cancelled,     \* the last morphShape call killed a tween in mid-flight
  shapeD,        \* the d attribute of the shape path
  dots,          \* is-active of each carousel dot
  track,         \* the cards of the track, in DOM order
  serviceCard,   \* the card whose copy setServiceCopy displays
  isAnimating,
  trackTween,    \* the pending onComplete of the track tween
  fn,            \* a call of one engine function on drawn arguments
  page,          \* media queries, the [data-screen] elements, window.scrollY
  slide,         \* the variables of initSlideScroll
  timers,        \* pending window.setTimeout callbacks, oldest first
  lastEvent,     \* the event the slide scroller handled last
  restrained,    \* the variables of src/js/motion.js, the restrained controller
  reveal,        \* the entry timelines and observer of initSlideReveal
  picker         \* the variables of initPlanTripCalendar

carouselVars == <<hasShape, shapesPoints, shapeIndex, morphState, morphTween,
                  tweens, cancelled, shapeD, dots, track, serviceCard,
                  isAnimating, trackTween>>
scrollVars == <<page, slide, timers, lastEvent>>
widgetVars == <<restrained, reveal, picker>>
vars == <<hasShape, shapesPoints, shapeIndex, morphState, morphTween,
          tweens, cancelled, shapeD, dots, track, serviceCard,
          isAnimating, trackTween, fn, page, slide, timers, lastEvent,
          restrained, reveal, picker>>

NoTrackTween == [kind |-> "none", first |-> 0]
\* a page without [data-screen] elements: initSlideScroll and initSlideReveal
\* return at once
NoPage == [reduceMotion |-> FALSE, isMobileLayout |-> FALSE, screens |-> 0,
           scrollY |-> 0, active |-> <<>>]
NoSlide == [installed |-> FALSE, currentIndex |-> 0, isAnimating |-> FALSE,
            gestureLock |-> FALSE, wheelAge |-> 0, touchStartY |-> 0,
            touchStartX |-> 0]
NoEvent == [kind |-> "none", dir |-> 0]
NoCall == [op |-> "idle", a |-> <<>>, b |-> <<>>, c |-> FALSE, t |-> 0,
           out |-> <<>>, threw |-> FALSE]
NoEntry == [target |-> 0, isIntersecting |-> FALSE]
\* src/js/motion.js on a page without [data-screen] elements
NoRestrained == [installed |-> FALSE, reduceMotion |-> FALSE, screens |-> 0,
                 scrollY |-> 0, isScrolling |-> FALSE, lastWheelAge |-> 0,
                 touchStartY |-> 0, timeouts |-> <<>>, active |-> <<>>,
                 lastEntry |-> NoEntry]
\* a page without [data-screen] elements: no timeline, no observer
NoReveal == [installed |-> FALSE, screens |-> 0, screen04 |-> 0,
             active |-> <<>>, tl |-> <<>>, last |-> <<>>, exits |-> 0]
\* a page without the #plan-trip-modal calendar
NoDate == [set |-> FALSE, m |-> 0, d |-> 0]
NoPicker == [installed |-> FALSE, isOpen |-> FALSE, isOpenClass |-> FALSE,
             focused |-> FALSE, value |-> <<>>, selected |-> NoDate,
             current |-> 0, view |-> [m |-> -1, sel |-> 0],
             events |-> <<>>, gesture |-> "none", wasOpen |-> FALSE,
             wasFocused |-> FALSE]
InitWidgets ==
  /\ restrained = NoRestrained
  /\ reveal = NoReveal
  /\ picker = NoPicker

\* ------------------------------------------------------- initialisation ----
shapesPointsOf_unnormalized(raw) == raw

\* rawShapes.map((d) => normalizeWinding(normalizePoints(d), true))
shapesPointsOf(raw) == [i \in 1..Len(raw) |-> normalizeWinding(raw[i], TRUE)]

\* The library is a parameter of the model (rawShapes in the code).  With
\* the shape element missing initMorphing returns null and no library is
\* built.  The empty library is kept as an input of morphShape, to see what
\* lines 621-628 do with it; in the script itself the first paint of
\* initMorphing (line 532) throws on it, shapesPoints[0] being undefined.
InitCarousel ==
  /\ hasShape \in BOOLEAN
  /\ \E raw \in Libraries :
       shapesPoints = IF hasShape THEN shapesPointsOf(raw) ELSE <<>>
  /\ shapeIndex = 0
  /\ morphState = [t |-> 0]
  /\ morphTween = "null"
  /\ tweens = <<>>
  /\ cancelled = FALSE
  /\ shapeD = IF hasShape /\ Len(shapesPoints) > 0
              THEN pointsToPath(shapesPoints[1]) ELSE <<>>
  /\ \E c \in 1..MaxCards :
       /\ track = [i \in 1..c |-> i]
       /\ dots = [i \in 1..c |-> i = 1]
  /\ serviceCard = track[1]
  /\ isAnimating = FALSE
  /\ trackTween = NoTrackTween
  /\ fn = NoCall

Init ==
  /\ InitCarousel
  /\ page = NoPage
  /\ slide = NoSlide
  /\ timers = <<>>
  /\ lastEvent = NoEvent
  /\ InitWidgets

\* ------------------------------------------------------------ morphShape ----
IsIndex(i, K) == i >= 0 /\ i < K

\* the JavaScript remainder: NaN for a zero divisor, sign of the dividend
JsMod(a, b) ==
  IF a = NaN \/ b = 0 THEN NaN
  ELSE IF a >= 0 THEN a % b ELSE 0 - ((0 - a) % b)

JsAdd(a, b) == IF a = NaN \/ b = NaN THEN NaN ELSE a + b

NextIndex_noWrap(idx, dir, K) ==
  JsMod(JsAdd(idx, IF dir = "next" THEN 1 ELSE -1), K)

\* (shapeIndex + (dir === 'next' ? 1 : -1) + length) % length
NextIndex(idx, dir, K) ==
  JsMod(JsAdd(JsAdd(idx, IF dir = "next" THEN 1 ELSE -1), K), K)

\* dots.forEach((dot, i) => dot.classList.toggle('is-active', i === index))
updateDots(index) == [i \in 1..Len(dots) |-> (i - 1) = index]

AfterKill_none(tws, ref) == tws

\* if (morphTween) morphTween.kill(): a finished tween is no longer run
AfterKill(tws, ref) ==
  IF ref = "live" THEN SubSeq(tws, 1, Len(tws) - 1) ELSE tws

transitionSource_afterAdvance(lib, oldIndex, newIndex) == lib[newIndex + 1]

\* const from = shapesPoints[shapeIndex], read before the cursor moves
transitionSource(lib, oldIndex, newIndex) == lib[oldIndex + 1]

libraryAfterAlign_stored(lib, newIndex, to) ==
  [lib EXCEPT ![newIndex + 1] = to]

\* to = rotateToMatch(from, to) binds the local to; the library keeps its
\* entry, and rotateToMatch builds its result with toPts.map
libraryAfterAlign(lib, newIndex, to) == lib

morphShape(dir) ==
  IF ~hasShape
  THEN UNCHANGED <<shapesPoints, shapeIndex, dots, morphState, morphTween,
                   tweens, cancelled>>
  ELSE LET K == Len(shapesPoints)
           newIndex == NextIndex(shapeIndex, dir, K)
       IN  /\ shapeIndex' = newIndex
           /\ dots' = updateDots(newIndex)
           /\ IF ~IsIndex(shapeIndex, K) \/ ~IsIndex(newIndex, K)
              THEN UNCHANGED <<shapesPoints, morphState, morphTween, tweens,
                               cancelled>>
              ELSE LET from == transitionSource(shapesPoints, shapeIndex,
                                                newIndex)
                       to == rotateToMatch(from, shapesPoints[newIndex + 1])
                   IN  /\ shapesPoints'
                            = libraryAfterAlign(shapesPoints, newIndex, to)
                       /\ tweens' = Append(AfterKill(tweens, morphTween),
                                     [from |-> from, to |-> to, p |-> 0])
                       /\ morphState' = [t |-> 0]
                       /\ morphTween' = "live"
                       /\ cancelled' = (/\ morphTween = "live"
                                        /\ morphState.t > 0
                                        /\ morphState.t < One)

\* -------------------------------------------------------------- actions ----
appendChild_copy(tr, card) == Append(tr, card)

\* track.appendChild(card): a node that is in the track already is moved
\* to its end
appendChild(tr, card) ==
  SelectSeq(tr, LAMBDA c : c # card) \o <<card>>

\* track.insertBefore(card, track.firstChild): the node is moved to the
\* front
insertFirst(tr, card) ==
  <<card>> \o SelectSeq(tr, LAMBDA c : c # card)

shiftNext ==
  /\ ~isAnimating
  /\ Len(track) > 0
  /\ isAnimating' = TRUE
  /\ serviceCard' = (IF Len(track) > 1 THEN track[2] ELSE track[1])
  /\ morphShape("next")
  /\ trackTween' = [kind |-> "next", first |-> track[1]]
  /\ UNCHANGED <<hasShape, shapeD, track, fn, scrollVars, widgetVars>>

shiftPrev ==
  /\ ~isAnimating
  /\ Len(track) > 0
  /\ isAnimating' = TRUE
  /\ serviceCard' = track[Len(track)]
  /\ morphShape("prev")
  /\ track' = insertFirst(track, track[Len(track)])
  /\ trackTween' = [kind |-> "prev", first |-> 0]
  /\ UNCHANGED <<hasShape, shapeD, fn, scrollVars, widgetVars>>

\* onComplete of the track tween started by shiftNext or shiftPrev
trackComplete ==
  /\ trackTween.kind # "none"
  /\ track' = IF trackTween.kind = "next"
              THEN appendChild(track, trackTween.first)
              ELSE track
  /\ isAnimating' = FALSE
  /\ trackTween' = NoTrackTween
  /\ UNCHANGED <<hasShape, shapesPoints, shapeIndex, morphState, morphTween,
                 tweens, cancelled, shapeD, dots, serviceCard, fn, scrollVars,
                 widgetVars>>

RemoveAt(s, j) == SubSeq(s, 1, j - 1) \o SubSeq(s, j + 1, Len(s))

\* one animation frame of a morph tween gsap runs: it writes morphState.t
\* and calls onUpdate; the frame that reaches t = 1 ends the tween
morphFrame ==
  \E j \in 1..Len(tweens) : \E q \in 1..TSteps :
    /\ q > tweens[j].p
    /\ morphState' = [t |-> TValue(q)]
    /\ shapeD' = pointsToPath(Interp(tweens[j].from, tweens[j].to, TValue(q)))
    /\ tweens' = IF q = TSteps THEN RemoveAt(tweens, j)
                 ELSE [tweens EXCEPT ![j].p = q]
    /\ morphTween' = IF q = TSteps /\ j = Len(tweens) /\ morphTween = "live"
                     THEN "done" ELSE morphTween
    /\ UNCHANGED <<hasShape, shapesPoints, shapeIndex, cancelled, dots, track,
                   serviceCard, isAnimating, trackTween, fn, scrollVars,
                   widgetVars>>

Next == shiftNext \/ shiftPrev \/ trackComplete \/ morphFrame

Spec == Init /\ [][Next]_vars

\* ------------------------------------------------- the engine functions ----
\* normalizeWinding, rotateToMatch and onUpdate applied to drawn arguments.
InitFn ==
  /\ hasShape = FALSE
  /\ shapesPoints = <<>>
  /\ shapeIndex = 0
  /\ morphState = [t |-> 0]
  /\ morphTween = "null"
  /\ tweens = <<>>
  /\ cancelled = FALSE
  /\ shapeD = <<>>
  /\ dots = <<>>
  /\ track = <<>>
  /\ serviceCard = 0
  /\ isAnimating = FALSE
  /\ trackTween = NoTrackTween
  /\ page = NoPage
  /\ slide = NoSlide
  /\ timers = <<>>
  /\ lastEvent = NoEvent
  /\ InitWidgets
  /\ \/ \E p \in SeqsUpTo(WindPoints, MaxLen) :
          fn = [NoCall EXCEPT !.a = p]
     \/ \E n \in 1..MaxPairLen :
          \E f \in [1..n -> PairPoints] : \E g \in [1..n -> PairPoints] :
            fn = [NoCall EXCEPT !.op = "pair", !.a = f, !.b = g]
     \/ \E o \in Outlines : \E n \in 3..MaxSamples :
          fn = [NoCall EXCEPT !.op = "outline", !.a = o, !.t = n]
     \/ \E n \in 1..MaxPairLen : \E m \in (1..MaxPairLen) \ {n} :
          \E f \in [1..n -> PairPoints] : \E g \in [1..m -> PairPoints] :
            fn = [NoCall EXCEPT !.op = "unequal", !.a = f, !.b = g]

\* normalizeWinding(p, c), then again on its own result
applyNormalizeWinding ==
  /\ fn.op \in {"idle", "normalizeWinding"}
  /\ Len(fn.out) < 2
  /\ \E c \in BOOLEAN :
       /\ fn.op = "normalizeWinding" => c = fn.c
       /\ fn' = [fn EXCEPT
                   !.op = "normalizeWinding", !.c = c,
                   !.out = Append(fn.out,
                             normalizeWinding(IF fn.out = <<>> THEN fn.a
                                              ELSE fn.out[Len(fn.out)], c))]
  /\ UNCHANGED <<carouselVars, scrollVars, widgetVars>>

applyRotateToMatch ==
  /\ fn.op = "pair"
  /\ fn' = [fn EXCEPT !.op = "rotateToMatch",
                      !.out = <<rotateToMatch(fn.a, fn.b)>>]
  /\ UNCHANGED <<carouselVars, scrollVars, widgetVars>>

\* normalizePoints(d) for the outline a, sampleCount being t; b keeps the
\* distances handed to getPointAtLength
applyNormalizePoints ==
  /\ fn.op = "outline"
  /\ fn' = [fn EXCEPT !.op = "normalizePoints",
                      !.b = SampleLengths(fn.a, fn.t),
                      !.out = <<normalizePoints(fn.a, fn.t)>>]
  /\ UNCHANGED <<carouselVars, scrollVars, widgetVars>>

\* const [tx, ty] = toPts[(i + offset) % len] throws a TypeError when the
\* index is past the end of toPts, the element being undefined
rotateToMatchThrows(fromPts, toPts) ==
  \E offset \in 0..(Len(fromPts) - 1) : \E i \in 0..(Len(fromPts) - 1) :
    (i + offset) % Len(fromPts) >= Len(toPts)

\* rotateToMatch on point sets of different lengths
applyRotateToMatchUnequal ==
  /\ fn.op = "unequal"
  /\ fn' = IF rotateToMatchThrows(fn.a, fn.b)
           THEN [fn EXCEPT !.op = "rotateUnequal", !.threw = TRUE]
           ELSE [fn EXCEPT !.op = "rotateUnequal",
                           !.out = <<rotateToMatch(fn.a, fn.b)>>]
  /\ UNCHANGED <<carouselVars, scrollVars, widgetVars>>

\* onUpdate on from = a and the aligned to = b at morphState.t = t
applyOnUpdate ==
  /\ fn.op = "pair"
  /\ \E t \in TValues :
       fn' = [fn EXCEPT !.op = "onUpdate", !.t = t,
                        !.out = <<Interp(fn.a, fn.b, t)>>]
  /\ UNCHANGED <<carouselVars, scrollVars, widgetVars>>

\* pointsToPath(a)
applyPointsToPath ==
  /\ fn.op = "idle"
  /\ fn' = [fn EXCEPT !.op = "pointsToPath", !.out = <<pointsToPath(fn.a)>>]
  /\ UNCHANGED <<carouselVars, scrollVars, widgetVars>>

NextFn ==
  \/ applyPointsToPath
  \/ applyNormalizeWinding
  \/ applyRotateToMatch
  \/ applyRotateToMatchUnequal
  \/ applyNormalizePoints
  \/ applyOnUpdate

SpecFn == InitFn /\ [][NextFn]_vars

\* ----------------------------------------------------- slide scroller ----
lockMs == 850
wheelMinDelta == 14
wheelCooldownMs == 420
swipeMinDelta == 50

enableGsapAnimations(pg) == ~pg.reduceMotion /\ ~pg.isMobileLayout

\* initSlideScroll returns before it registers a listener when there is no
\* screen, with reduced motion and on the mobile layout
slideScrollInstalled(pg) ==
  pg.screens > 0 /\ ~pg.reduceMotion /\ ~pg.isMobileLayout

\* initParallax and initScrollFade register their scroll listener
parallaxInstalled(pg) == ~(pg.reduceMotion \/ enableGsapAnimations(pg))

\* entry timelines are built and the IntersectionObserver is installed
slideRevealInstalled(pg) ==
  pg.screens > 0 /\ ~(pg.reduceMotion \/ pg.isMobileLayout)

\* is-active of every slide once initSlideReveal has run
slideRevealInit(pg) ==
  [i \in 1..pg.screens |-> pg.reduceMotion \/ pg.isMobileLayout]

clampIndex(idx, screens) ==
  IF idx < 0 THEN 0 ELSE IF idx > screens - 1 THEN screens - 1 ELSE idx

\* the screen nearest to window.scrollY; scrollY is kept as that index
getActiveIndex == page.scrollY

goToBlocked_never(animating) == FALSE

\* if (isAnimating) return
goToBlocked(animating) == animating

\* goTo(idx) called by a handler that has brought the scroller's variables
\* to sl and registers the timeouts more after the call
goTo(sl, idx, more) ==
  IF goToBlocked(sl.isAnimating)
  THEN /\ slide' = sl
       /\ page' = page
       /\ timers' = timers \o more
  ELSE LET nextIndex == clampIndex(idx, page.screens)
       IN  /\ slide' = [sl EXCEPT !.currentIndex = nextIndex,
                                  !.isAnimating = TRUE]
           /\ page' = [page EXCEPT !.scrollY = nextIndex]
           /\ timers' = Append(timers, [kind |-> "isAnimating",
                                        left |-> lockMs]) \o more

WheelDeltas == {-100, -5, 0, 5, 100}
TouchCoords == {0, 60}
KeyCodes == {"ArrowDown", "PageDown", "Space", "ArrowUp", "PageUp", "Home",
             "End", "KeyA"}

onWheel ==
  /\ slide.installed
  /\ \E ignore \in BOOLEAN : \E deltaY \in WheelDeltas :
       IF \/ ignore
          \/ slide.gestureLock \/ slide.isAnimating
          \/ Abs(deltaY) < wheelMinDelta
          \/ slide.wheelAge < wheelCooldownMs
       THEN UNCHANGED <<page, slide, timers, lastEvent>>
       ELSE LET dir == IF deltaY > 0 THEN 1 ELSE -1
                sl == [slide EXCEPT !.wheelAge = 0,
                                    !.currentIndex = getActiveIndex,
                                    !.gestureLock = TRUE]
            IN  /\ goTo(sl, sl.currentIndex + dir,
                        <<[kind |-> "gestureLock", left |-> lockMs]>>)
                /\ lastEvent' = [kind |-> "wheel", dir |-> dir]
  /\ UNCHANGED <<carouselVars, fn, widgetVars>>

onTouchStart ==
  /\ slide.installed
  /\ \E x \in TouchCoords : \E y \in TouchCoords :
       slide' = [slide EXCEPT !.touchStartY = y, !.touchStartX = x]
  /\ UNCHANGED <<carouselVars, fn, widgetVars, page, timers, lastEvent>>

onTouchEnd ==
  /\ slide.installed
  /\ \E x \in TouchCoords : \E y \in TouchCoords :
       LET deltaY == slide.touchStartY - y
           deltaX == slide.touchStartX - x
       IN  IF Abs(deltaY) < swipeMinDelta \/ Abs(deltaY) < Abs(deltaX)
           THEN UNCHANGED <<page, slide, timers, lastEvent>>
           ELSE LET dir == IF deltaY > 0 THEN 1 ELSE -1
                    sl == [slide EXCEPT !.currentIndex = getActiveIndex]
                IN  /\ goTo(sl, sl.currentIndex + dir, <<>>)
                    /\ lastEvent' = [kind |-> "swipe", dir |-> dir]
  /\ UNCHANGED <<carouselVars, fn, widgetVars>>

onKeyDown ==
  /\ slide.installed
  /\ \E ignore \in BOOLEAN : \E code \in KeyCodes :
       IF ignore THEN UNCHANGED <<page, slide, timers, lastEvent>>
       ELSE IF code \in {"ArrowDown", "PageDown", "Space"}
       THEN LET sl == [slide EXCEPT !.currentIndex = getActiveIndex]
            IN  /\ goTo(sl, sl.currentIndex + 1, <<>>)
                /\ lastEvent' = [kind |-> "key", dir |-> 1]
       ELSE IF code \in {"ArrowUp", "PageUp"}
       THEN LET sl == [slide EXCEPT !.currentIndex = getActiveIndex]
            IN  /\ goTo(sl, sl.currentIndex - 1, <<>>)
                /\ lastEvent' = [kind |-> "key", dir |-> -1]
       ELSE IF code = "Home"
       THEN /\ goTo(slide, 0, <<>>)
            /\ lastEvent' = [kind |-> "home", dir |-> 0]
       ELSE IF code = "End"
       THEN /\ goTo(slide, page.screens - 1, <<>>)
            /\ lastEvent' = [kind |-> "end", dir |-> 0]
       ELSE UNCHANGED <<page, slide, timers, lastEvent>>
  /\ UNCHANGED <<carouselVars, fn, widgetVars>>

\* hashTarget: the index of the screen the hash names, -1 for anything else
onHashChange ==
  /\ slide.installed
  /\ \E hashTarget \in -1..(page.screens - 1) :
       IF hashTarget = -1 THEN UNCHANGED <<page, slide, timers, lastEvent>>
       ELSE /\ goTo(slide, hashTarget, <<>>)
            /\ lastEvent' = [kind |-> "hash", dir |-> 0]
  /\ UNCHANGED <<carouselVars, fn, widgetVars>>

onResize ==
  /\ slide.installed
  /\ goTo(slide, slide.currentIndex, <<>>)
  /\ lastEvent' = [kind |-> "resize", dir |-> 0]
  /\ UNCHANGED <<carouselVars, fn, widgetVars>>

\* the page is scrolled by other means than the scroller (the scroll bar)
nativeScroll ==
  /\ page.screens > 0
  /\ \E y \in 0..(page.screens - 1) :
       /\ y # page.scrollY
       /\ page' = [page EXCEPT !.scrollY = y]
  /\ lastEvent' = [kind |-> "scroll", dir |-> 0]
  /\ UNCHANGED <<carouselVars, fn, widgetVars, slide, timers>>

released_animatingOnly(sl, kind) == [sl EXCEPT !.isAnimating = FALSE]

\* () => { isAnimating = false; } of goTo, () => { gestureLock = false; }
\* of onWheel
released(sl, kind) ==
  IF kind = "isAnimating" THEN [sl EXCEPT !.isAnimating = FALSE]
  ELSE [sl EXCEPT !.gestureLock = FALSE]

\* the callback of the oldest timeout, once its delay has passed
timerFires ==
  /\ timers # <<>>
  /\ timers[1].left = 0
  /\ slide' = released(slide, timers[1].kind)
  /\ timers' = Tail(timers)
  /\ UNCHANGED <<carouselVars, fn, widgetVars, page, lastEvent>>

Elapse(left) == IF left > TickMs THEN left - TickMs ELSE 0

\* TickMs milliseconds pass: Date.now() moves on and timeouts come nearer
tick ==
  /\ slide.installed
  /\ \/ slide.wheelAge < wheelCooldownMs
     \/ \E k \in 1..Len(timers) : timers[k].left > 0
  /\ timers' = [k \in 1..Len(timers) |->
                  [timers[k] EXCEPT !.left = Elapse(@)]]
  /\ slide' = [slide EXCEPT
                 !.wheelAge = IF @ + TickMs >= wheelCooldownMs
                              THEN wheelCooldownMs ELSE @ + TickMs]
  /\ UNCHANGED <<carouselVars, fn, widgetVars, page, lastEvent>>

\* the state initSlideScroll and initSlideReveal leave: the index synced to
\* the scroll position, then onHashChange() for a hash, goTo(currentIndex)
\* without one
InitScroll ==
  /\ hasShape = FALSE
  /\ shapesPoints = <<>>
  /\ shapeIndex = 0
  /\ morphState = [t |-> 0]
  /\ morphTween = "null"
  /\ tweens = <<>>
  /\ cancelled = FALSE
  /\ shapeD = <<>>
  /\ dots = <<>>
  /\ track = <<>>
  /\ serviceCard = 0
  /\ isAnimating = FALSE
  /\ trackTween = NoTrackTween
  /\ fn = NoCall
  /\ lastEvent = NoEvent
  /\ InitWidgets
  /\ \E rm \in BOOLEAN : \E mobile \in BOOLEAN : \E n \in 0..MaxScreens :
     \E y \in 0..(IF n = 0 THEN 0 ELSE n - 1) :
     \E hash \in -2..(n - 1) :   \* -2: no hash, -1: not a screen
       LET pg == [reduceMotion |-> rm, isMobileLayout |-> mobile,
                  screens |-> n, scrollY |-> y,
                  active |-> <<>>]
           pg1 == [pg EXCEPT !.active = slideRevealInit(pg)]
           synced == [NoSlide EXCEPT !.installed = TRUE,
                                     !.currentIndex = y,
                                     !.wheelAge = wheelCooldownMs]
           target == IF hash = -2 THEN y ELSE hash
       IN  IF ~slideScrollInstalled(pg)
           THEN page = pg1 /\ slide = NoSlide /\ timers = <<>>
           ELSE IF hash = -1
           THEN page = pg1 /\ slide = synced /\ timers = <<>>
           ELSE /\ page = [pg1 EXCEPT !.scrollY = clampIndex(target, n)]
                /\ slide = [synced EXCEPT
                              !.currentIndex = clampIndex(target, n),
                              !.isAnimating = TRUE]
                /\ timers = <<[kind |-> "isAnimating", left |-> lockMs]>>

NextScroll ==
  \/ onWheel
  \/ onTouchStart
  \/ onTouchEnd
  \/ onKeyDown
  \/ onHashChange
  \/ onResize
  \/ nativeScroll
  \/ timerFires
  \/ tick

SpecScroll == InitScroll /\ [][NextScroll]_vars

\* due timeouts are called and time passes
SpecScrollFair ==
  SpecScroll /\ WF_vars(timerFires) /\ WF_vars(tick)

\* ------------------------------------------------------ reduced motion ----
\* The page of a user who prefers reduced motion: the carousel with its
\* buttons and keys, and the window scrolled by the browser alone.
InitReduced ==
  /\ InitCarousel
  /\ \E mobile \in BOOLEAN : \E n \in {MaxScreens - 1} :
       LET pg == [reduceMotion |-> TRUE, isMobileLayout |-> mobile,
                  screens |-> n, scrollY |-> 0, active |-> <<>>]
       IN  /\ page = [pg EXCEPT !.active = slideRevealInit(pg)]
           /\ slide = [NoSlide EXCEPT !.installed = slideScrollInstalled(pg)]
  /\ timers = <<>>
  /\ lastEvent = NoEvent
  /\ InitWidgets

NextReduced == Next \/ nativeScroll

SpecReduced == InitReduced /\ [][NextReduced]_vars

\* --------------------------- the restrained controller (src/js/motion.js) ----
\* Scroll positions are counted in tenths of the viewport height, screen i
\* having its top at 10 * i; delays are in milliseconds.
releaseMs == 150
wheelSnapMs == 150
wheelThrottleMs == 100
scrollSnapMs == 100
touchSnapMs == 200
touchMinDelta == 50

ScrollOffsets == {0, 2, 5}

\* the carousel, the engine harness and the slide scroller left out
InitRest ==
  /\ hasShape = FALSE
  /\ shapesPoints = <<>>
  /\ shapeIndex = 0
  /\ morphState = [t |-> 0]
  /\ morphTween = "null"
  /\ tweens = <<>>
  /\ cancelled = FALSE
  /\ shapeD = <<>>
  /\ dots = <<>>
  /\ track = <<>>
  /\ serviceCard = 0
  /\ isAnimating = FALSE
  /\ trackTween = NoTrackTween
  /\ fn = NoCall
  /\ page = NoPage
  /\ slide = NoSlide
  /\ timers = <<>>
  /\ lastEvent = NoEvent

\* initScrollSnap returns before it registers a listener with reduced motion
\* and without screens
scrollSnapInstalled(rm, screens) == ~rm /\ screens > 0

\* clearTimeout(handle): the pending timeout the variable refers to
clearTimeout(tm, handle) == SelectSeq(tm, LAMBDA t : t.handle # handle)

\* Math.round(scrollY / viewportHeight)
currentScreenIndex(y) == (y + 5) \div 10

\* lines 24-40 of snapToScreen: where the window is scrolled to
snapTop(y, screens) ==
  LET idx == currentScreenIndex(y)
      targetTop == IF idx < screens THEN 10 * idx ELSE 0
  IN  IF Abs(y - targetTop) < 3 THEN targetTop ELSE y

snapToScreen(r) ==
  IF r.isScrolling THEN r
  ELSE [r EXCEPT !.isScrolling = TRUE,
                 !.scrollY = snapTop(r.scrollY, r.screens),
                 !.timeouts = Append(clearTimeout(@, "scrollTimeout"),
                                     [kind |-> "release",
                                      handle |-> "scrollTimeout",
                                      left |-> releaseMs])]

snapOnWheel ==
  /\ restrained.installed
  /\ restrained' =
       IF restrained.lastWheelAge < wheelThrottleMs THEN restrained
       ELSE [restrained EXCEPT
               !.lastWheelAge = 0,
               !.timeouts = Append(clearTimeout(@, "wheelTimeout"),
                                   [kind |-> "snap", handle |-> "wheelTimeout",
                                    left |-> wheelSnapMs])]
  /\ UNCHANGED <<carouselVars, fn, scrollVars, reveal, picker>>

\* the window is scrolled to y, by the user or by scrollTo, and the scroll
\* listener runs
snapOnScroll ==
  /\ restrained.screens > 0
  /\ \E i \in 0..(restrained.screens - 1) : \E o \in ScrollOffsets :
       /\ 10 * i + o # restrained.scrollY
       /\ restrained' =
            IF ~restrained.installed
            THEN [restrained EXCEPT !.scrollY = 10 * i + o]
            ELSE [restrained EXCEPT
                    !.scrollY = 10 * i + o,
                    !.timeouts = Append(clearTimeout(@, "scrollTimeout"),
                                        [kind |-> "snap",
                                         handle |-> "scrollTimeout",
                                         left |-> scrollSnapMs])]
  /\ UNCHANGED <<carouselVars, fn, scrollVars, reveal, picker>>

snapOnTouchStart ==
  /\ restrained.installed
  /\ \E y \in TouchCoords :
       restrained' = [restrained EXCEPT !.touchStartY = y]
  /\ UNCHANGED <<carouselVars, fn, scrollVars, reveal, picker>>

\* the timeouts of touchend have no handle; at most MaxTouchTimers of them
\* are kept pending
snapOnTouchEnd ==
  /\ restrained.installed
  /\ Len(SelectSeq(restrained.timeouts, LAMBDA t : t.handle = "none"))
       < MaxTouchTimers
  /\ \E touchEndY \in TouchCoords :
       LET diff == restrained.touchStartY - touchEndY
       IN  restrained' =
             IF Abs(diff) > touchMinDelta
             THEN [restrained EXCEPT
                     !.timeouts = Append(@, [kind |-> "snap",
                                             handle |-> "none",
                                             left |-> touchSnapMs])]
             ELSE restrained
  /\ UNCHANGED <<carouselVars, fn, scrollVars, reveal, picker>>

\* the callback of a timeout whose delay has passed
snapTimerFires ==
  /\ \E k \in 1..Len(restrained.timeouts) :
       /\ restrained.timeouts[k].left = 0
       /\ LET r == [restrained EXCEPT !.timeouts = RemoveAt(@, k)]
          IN  restrained' =
                IF restrained.timeouts[k].kind = "release"
                THEN [r EXCEPT !.isScrolling = FALSE]
                ELSE snapToScreen(r)
  /\ UNCHANGED <<carouselVars, fn, scrollVars, reveal, picker>>

SnapElapse(left) == IF left > SnapTickMs THEN left - SnapTickMs ELSE 0

\* SnapTickMs milliseconds pass
snapTick ==
  /\ restrained.installed
  /\ \/ restrained.lastWheelAge < wheelThrottleMs
     \/ \E k \in 1..Len(restrained.timeouts) : restrained.timeouts[k].left > 0
  /\ restrained' =
       [restrained EXCEPT
          !.timeouts = [k \in 1..Len(restrained.timeouts) |->
                          [restrained.timeouts[k] EXCEPT
                             !.left = SnapElapse(@)]],
          !.lastWheelAge = IF @ + SnapTickMs >= wheelThrottleMs
                           THEN wheelThrottleMs ELSE @ + SnapTickMs]
  /\ UNCHANGED <<carouselVars, fn, scrollVars, reveal, picker>>

onIntersect_toggle(act, i, isIntersecting) ==
  [act EXCEPT ![i] = isIntersecting]

\* if (e.isIntersecting) activate(e.target)
onIntersect(act, i, isIntersecting) ==
  IF isIntersecting THEN [act EXCEPT ![i] = TRUE] ELSE act

\* the IntersectionObserver of initSlideReveal reports one entry
ioCallback ==
  /\ ~restrained.reduceMotion
  /\ \E i \in 1..restrained.screens : \E isIntersecting \in BOOLEAN :
       restrained' =
         [restrained EXCEPT
            !.active = onIntersect(@, i, isIntersecting),
            !.lastEntry = [target |-> i, isIntersecting |-> isIntersecting]]
  /\ UNCHANGED <<carouselVars, fn, scrollVars, reveal, picker>>

\* the state the three functions of src/js/motion.js leave
InitSnap ==
  /\ InitRest
  /\ reveal = NoReveal
  /\ picker = NoPicker
  /\ \E rm \in BOOLEAN : \E n \in 0..MaxScreens :
       restrained = [NoRestrained EXCEPT
                       !.installed = scrollSnapInstalled(rm, n),
                       !.reduceMotion = rm,
                       !.screens = n,
                       !.lastWheelAge = wheelThrottleMs,
                       !.active = [i \in 1..n |-> rm]]

NextSnap ==
  \/ snapOnWheel
  \/ snapOnScroll
  \/ snapOnTouchStart
  \/ snapOnTouchEnd
  \/ snapTimerFires
  \/ snapTick

SpecSnap == InitSnap /\ [][NextSnap]_vars

\* slide activation, with the window scrolled and the snaps that follow
NextActivation ==
  \/ ioCallback
  \/ snapOnScroll
  \/ snapTimerFires
  \/ snapTick

SpecActivation == InitSnap /\ [][NextActivation]_vars

\* timeouts fire and time passes
SpecSnapFair ==
  SpecSnap /\ WF_vars(snapTimerFires) /\ WF_vars(snapTick)

\* --------------------------------- initSlideReveal with entry timelines ----
\* reveal.screen04 is the index of the screen with id screen-04 that holds
\* .pricing-card elements, 0 when the page has none.  reveal.tl[s] is the
\* entry timeline of screen s, reveal.last[s] the call that positioned the
\* animated elements of s last ("set", "restart", "pause" or "reset"), and
\* reveal.exits the number of exit tweens of the pricing cards gsap runs.

\* entry.tl.restart(true): the exit tweens are no children of the timeline
\* and gsap's default is overwrite: false
exitsAfterRestart(n) == n

\* one entry of the IntersectionObserver callback: screen s enters
revealEnter ==
  /\ reveal.installed
  /\ \A t \in 1..reveal.screens : ~reveal.active[t]
  /\ \E s \in 1..reveal.screens :
       reveal' = [reveal EXCEPT !.active[s] = TRUE,
                                !.tl[s] = "playing",
                                !.last[s] = "restart",
                                !.exits = IF s = reveal.screen04
                                          THEN exitsAfterRestart(@) ELSE @]
  /\ UNCHANGED <<carouselVars, fn, scrollVars, restrained, picker>>

\* one entry of the IntersectionObserver callback: screen s leaves
revealLeave ==
  /\ reveal.installed
  /\ \E s \in 1..reveal.screens :
       /\ reveal.active[s]
       /\ s = reveal.screen04 => reveal.exits < MaxExits
       /\ reveal' =
            IF s = reveal.screen04
            THEN [reveal EXCEPT !.active[s] = FALSE,
                                !.tl[s] = "paused",
                                !.last[s] = "pause",
                                !.exits = @ + 1]
            ELSE [reveal EXCEPT !.active[s] = FALSE,
                                !.tl[s] = "paused",
                                !.last[s] = "reset"]
  /\ UNCHANGED <<carouselVars, fn, scrollVars, restrained, picker>>

\* onComplete of an exit tween of the pricing cards: entry.reset()
exitComplete ==
  /\ reveal.exits > 0
  /\ reveal' = [reveal EXCEPT !.exits = @ - 1,
                              !.last[reveal.screen04] = "reset"]
  /\ UNCHANGED <<carouselVars, fn, scrollVars, restrained, picker>>

\* the entry timeline of a screen plays to its end
tlComplete ==
  /\ \E s \in 1..reveal.screens :
       /\ reveal.tl[s] = "playing"
       /\ reveal' = [reveal EXCEPT !.tl[s] = "done"]
  /\ UNCHANGED <<carouselVars, fn, scrollVars, restrained, picker>>

\* the state initSlideReveal leaves once the observer has reported every
\* screen for the first time, screen cur (0: none) being in view
InitReveal ==
  /\ InitRest
  /\ restrained = NoRestrained
  /\ picker = NoPicker
  /\ \E rm \in BOOLEAN : \E mobile \in BOOLEAN : \E n \in 0..MaxScreens :
     \E s04 \in 0..n : \E cur \in 0..n :
       LET pg == [NoPage EXCEPT !.reduceMotion = rm,
                                !.isMobileLayout = mobile, !.screens = n]
       IN  IF ~slideRevealInstalled(pg)
           THEN reveal = [NoReveal EXCEPT
                            !.screens = n,
                            !.active = slideRevealInit(pg),
                            !.tl = [s \in 1..n |-> "none"],
                            !.last = [s \in 1..n |-> "none"]]
           ELSE reveal =
                  [installed |-> TRUE, screens |-> n, screen04 |-> s04,
                   active |-> [s \in 1..n |-> s = cur],
                   tl |-> [s \in 1..n |->
                             IF s = cur THEN "playing" ELSE "paused"],
                   last |-> [s \in 1..n |->
                               IF s = cur THEN "restart"
                               ELSE IF s = s04 THEN "pause" ELSE "reset"],
                   exits |-> IF s04 # 0 /\ s04 # cur THEN 1 ELSE 0]

NextReveal ==
  \/ revealEnter
  \/ revealLeave
  \/ exitComplete
  \/ tlComplete

SpecReveal == InitReveal /\ [][NextReveal]_vars

\* ------------------------------------------------- trip-date picker ----
\* A date is a month of 0..MaxMonths-1 and a day of 1..MaxDays; input.value
\* is '' (<<>>) or the text <<month number, day>> that formatDate writes.
\* One gesture of the user is delivered as the events the browser
\* dispatches for it, in their order; picker.events holds those still to
\* come, picker.gesture the gesture they belong to, and wasOpen, wasFocused
\* the state the gesture began in.

\* `${y}-${m}-${d}` with m = getMonth() + 1
formatDate(date) == <<date.m + 1, date.d>>

\* null for '' and for a part that is not a number
parseInput(value) ==
  IF value = <<>> THEN NoDate
  ELSE IF value[1] = 0 \/ value[2] = 0 THEN NoDate
  ELSE [set |-> TRUE, m |-> value[1] - 1, d |-> value[2]]

\* the grid of month current with the selected day marked
render(pk) ==
  [pk EXCEPT !.view = [m |-> pk.current,
                       sel |-> IF pk.selected.set /\ pk.selected.m = pk.current
                               THEN pk.selected.d ELSE 0]]

open(pk) ==
  IF pk.isOpen THEN pk
  ELSE LET parsed == parseInput(pk.value)
           opened == [pk EXCEPT !.isOpen = TRUE, !.isOpenClass = TRUE]
       IN  render(IF parsed.set
                  THEN [opened EXCEPT !.selected = parsed,
                                      !.current = parsed.m]
                  ELSE opened)

close(pk) ==
  IF ~pk.isOpen THEN pk
  ELSE [pk EXCEPT !.isOpen = FALSE, !.isOpenClass = FALSE]

Ev(type, target, control, day) ==
  [type |-> type, target |-> target, control |-> control, day |-> day]

begin(pk, gesture, evs) ==
  [pk EXCEPT !.gesture = gesture, !.wasOpen = pk.isOpen,
             !.wasFocused = pk.focused, !.events = evs]

\* the user clicks the date input: pointerdown, focus unless the input has
\* the focus already, click
userClicksInput ==
  /\ picker.installed
  /\ picker.events = <<>>
  /\ picker' = begin(picker, "clickInput",
                     <<Ev("pointerdown", "input", "none", 0)>>
                     \o (IF picker.focused THEN <<>>
                         ELSE <<Ev("focus", "input", "none", 0)>>)
                     \o <<Ev("click", "input", "none", 0)>>)
  /\ UNCHANGED <<carouselVars, fn, scrollVars, restrained, reveal>>

\* the user clicks a button of the open calendar; the button takes the focus
userClicksCalendar ==
  /\ picker.installed
  /\ picker.events = <<>>
  /\ picker.isOpenClass
  /\ \E control \in {"prev", "next", "day"} : \E day \in 1..MaxDays :
       /\ control = "prev" => picker.current > 0
       /\ control = "next" => picker.current < MaxMonths - 1
       /\ control # "day" => day = 1
       /\ picker' = begin(picker, "clickCalendar",
                          <<Ev("pointerdown", "calendar", control, day)>>
                          \o (IF picker.focused
                              THEN <<Ev("blur", "input", "none", 0)>>
                              ELSE <<>>)
                          \o <<Ev("click", "calendar", control, day)>>)
  /\ UNCHANGED <<carouselVars, fn, scrollVars, restrained, reveal>>

\* the user clicks elsewhere on the page
userClicksOutside ==
  /\ picker.installed
  /\ picker.events = <<>>
  /\ picker' = begin(picker, "clickOutside",
                     <<Ev("pointerdown", "outside", "none", 0)>>
                     \o (IF picker.focused
                         THEN <<Ev("blur", "input", "none", 0)>>
                         ELSE <<>>))
  /\ UNCHANGED <<carouselVars, fn, scrollVars, restrained, reveal>>

\* the user moves the focus into the input with the keyboard
userTabsIn ==
  /\ picker.installed
  /\ picker.events = <<>>
  /\ ~picker.focused
  /\ picker' = begin(picker, "tabIn", <<Ev("focus", "input", "none", 0)>>)
  /\ UNCHANGED <<carouselVars, fn, scrollVars, restrained, reveal>>

\* the capturing pointerdown listener of the document
onPointerDown ==
  /\ picker.events # <<>>
  /\ Head(picker.events).type = "pointerdown"
  /\ LET pk == [picker EXCEPT !.events = Tail(@)]
     IN  picker' = IF Head(picker.events).target \in {"input", "calendar"}
                   THEN pk ELSE close(pk)
  /\ UNCHANGED <<carouselVars, fn, scrollVars, restrained, reveal>>

\* input.addEventListener('focus', open)
onFocus ==
  /\ picker.events # <<>>
  /\ Head(picker.events).type = "focus"
  /\ picker' = open([picker EXCEPT !.events = Tail(@), !.focused = TRUE])
  /\ UNCHANGED <<carouselVars, fn, scrollVars, restrained, reveal>>

\* the input loses the focus; no listener is registered for it
onBlur ==
  /\ picker.events # <<>>
  /\ Head(picker.events).type = "blur"
  /\ picker' = [picker EXCEPT !.events = Tail(@), !.focused = FALSE]
  /\ UNCHANGED <<carouselVars, fn, scrollVars, restrained, reveal>>

\* the click listener of the input
onInputClick ==
  /\ picker.events # <<>>
  /\ Head(picker.events).type = "click"
  /\ Head(picker.events).target = "input"
  /\ LET pk == [picker EXCEPT !.events = Tail(@)]
     IN  picker' = IF pk.isOpen THEN close(pk) ELSE open(pk)
  /\ UNCHANGED <<carouselVars, fn, scrollVars, restrained, reveal>>

\* the click listener of the calendar
onCalendarClick ==
  /\ picker.events # <<>>
  /\ Head(picker.events).type = "click"
  /\ Head(picker.events).target = "calendar"
  /\ LET e == Head(picker.events)
         pk == [picker EXCEPT !.events = Tail(@)]
     IN  picker' =
           IF e.control = "prev"
           THEN render([pk EXCEPT !.current = @ - 1])
           ELSE IF e.control = "next"
           THEN render([pk EXCEPT !.current = @ + 1])
           ELSE LET dateValue == formatDate([m |-> pk.view.m, d |-> e.day])
                IN  close([pk EXCEPT !.value = dateValue,
                                     !.selected = parseInput(dateValue)])
  /\ UNCHANGED <<carouselVars, fn, scrollVars, restrained, reveal>>

\* the state initPlanTripCalendar leaves; current is today's month
InitPicker ==
  /\ InitRest
  /\ restrained = NoRestrained
  /\ reveal = NoReveal
  /\ \E installed \in BOOLEAN : \E month \in 0..(MaxMonths - 1) :
       picker = IF installed
                THEN [NoPicker EXCEPT !.installed = TRUE, !.current = month]
                ELSE NoPicker

NextPicker ==
  \/ userClicksInput
  \/ userClicksCalendar
  \/ userClicksOutside
  \/ userTabsIn
  \/ onPointerDown
  \/ onFocus
  \/ onBlur
  \/ onInputClick
  \/ onCalendarClick

SpecPicker == InitPicker /\ [][NextPicker]_vars

\* ================================================================ claims ====
\* ---- rotateToMatch ---------------------------------------------------------
\* b is the smallest offset whose score is minimal over all offsets
IsLeastMinOffset(f, g, b) ==
  /\ \A o \in 0..(Len(f) - 1) : Score(f, g, b) <= Score(f, g, o)
  /\ \A o \in 0..(b - 1) : Score(f, g, o) > Score(f, g, b)

\* C1: for from and to of equal length N >= 1, rotateToMatch uses the offset
\* b in [0, N) whose score is minimal over all offsets, the smallest such b.
C1_AlignmentOptimal ==
  fn.op = "rotateToMatch" =>
    \E b \in 0..(Len(fn.a) - 1) :
      /\ IsLeastMinOffset(fn.a, fn.b, b)
      /\ BestOffset(fn.a, fn.b) = b
      /\ fn.out[1] = [i \in 1..Len(fn.b) |->
                        fn.b[((i - 1 + b) % Len(fn.a)) + 1]]

\* a tie between two offsets was broken towards the smaller, non-zero one
C1_Witness ==
  /\ fn.op = "rotateToMatch"
  /\ BestOffset(fn.a, fn.b) = 1
  /\ Len(fn.a) = 3
  /\ Score(fn.a, fn.b, 2) = Score(fn.a, fn.b, 1)
  /\ Score(fn.a, fn.b, 0) > Score(fn.a, fn.b, 1)

Count(s, x) == Cardinality({i \in 1..Len(s) : s[i] = x})

\* C2: the output of rotateToMatch is a cyclic rotation of to: same length,
\* result[i] = to[(i + b) mod N] for one b, same multiset of points, and the
\* arguments are left as they were.
C2_AlignmentIsRotation ==
  [][fn'.op = "rotateToMatch" =>
       /\ fn'.a = fn.a
       /\ fn'.b = fn.b
       /\ Len(fn'.out[1]) = Len(fn.b)
       /\ \E b \in 0..(Len(fn.b) - 1) :
            \A i \in 1..Len(fn.b) :
              fn'.out[1][i] = fn.b[((i - 1 + b) % Len(fn.b)) + 1]
       /\ \A x \in PairPoints : Count(fn'.out[1], x) = Count(fn.b, x)]_vars

\* a rotation by a non-zero offset that changed the order of the points
C2_Witness ==
  /\ fn.op = "rotateToMatch"
  /\ Len(fn.b) = 3
  /\ fn.out[1] # fn.b
  /\ fn.out[1][1] = fn.b[3]

\* C11: given two point sets of different lengths the aligner fails with an
\* InvariantViolation condition instead of returning a point set, so that no
\* transition is started from them.
C11_UnequalLengthsRejected ==
  fn.op = "rotateUnequal" => (fn.threw /\ fn.out = <<>>)

\* ---- normalizePoints -------------------------------------------------------
degenerate(o) == o.w = 0 \/ o.h = 0

\* C12: for an outline whose bounding box has no width or no height the
\* sampler fails with a DegenerateGeometry condition: it returns no point
\* set, so that no undefined or non-finite coordinate reaches the library.
C12_DegenerateRejected ==
  (fn.op = "normalizePoints" /\ degenerate(fn.a)) =>
    (fn.threw /\ fn.out = <<>>)

\* lengths[k] is the representable number nearest to L * (k - 1) / (n - 1)
NearestTo(v, num, den) ==
  2 * Abs((v * den) - num) <= Quantum(Abs(v), 1) * den

\* C17: for a valid outline of total length L and a sample count N >= 3 the
\* sampler returns exactly N points, the i-th taken at arc length
\* L * i / (N - 1), i = 0..N-1 in traversal order: the first at length 0,
\* where the path starts, and the last at length L, where it ends.
C17_SamplerCardinality ==
  (fn.op = "normalizePoints" /\ ~degenerate(fn.a)) =>
    LET L == getTotalLength(fn.a)
        n == fn.t
    IN  /\ Len(fn.out[1]) = n
        /\ Len(fn.b) = n
        /\ fn.b[1] = 0
        /\ fn.b[n] = L
        /\ \A k \in 1..n : NearestTo(fn.b[k], L * (k - 1), n - 1)
        /\ \A k \in 1..(n - 1) : fn.b[k] <= fn.b[k + 1]
        /\ fn.out[1][1] = <<0, 0>>
        /\ L = 2 * (fn.a.w + fn.a.h) => fn.out[1][n] = fn.out[1][1]

\* four samples of a rectangle whose third-length distances are rounded
C17_Witness ==
  /\ fn.op = "normalizePoints"
  /\ ~degenerate(fn.a)
  /\ fn.t = 4
  /\ fn.b[2] * 3 # getTotalLength(fn.a)
  /\ fn.b[4] = getTotalLength(fn.a)
  /\ fn.out[1][4] = <<0, 0>>
  /\ fn.out[1][2] # fn.out[1][3]

inside(p, lo, extent) == lo <= p /\ p <= lo + extent

\* C18: for an outline whose bounding box has width and height, every
\* coordinate (p - bbox origin) / bbox extent * 200 of a sampled point p that
\* lies inside the bounding box is in [0, 200].
C18_NormalizationRange ==
  (fn.op = "normalizePoints" /\ ~degenerate(fn.a)) =>
    \A k \in 1..fn.t :
      LET p == getPointAtLength(fn.a, fn.b[k])
          q == fn.out[1][k]
      IN  /\ inside(p[1], fn.a.x, fn.a.w) => (0 <= q[1] /\ q[1] <= Frame)
          /\ inside(p[2], fn.a.y, fn.a.h) => (0 <= q[2] /\ q[2] <= Frame)

\* an outline away from the origin with one sample on the far edge of its
\* box and one strictly inside the frame
C18_Witness ==
  /\ fn.op = "normalizePoints"
  /\ ~degenerate(fn.a)
  /\ fn.a.x > 0
  /\ fn.a.y > 0
  /\ \E k \in 1..fn.t :
       /\ inside(getPointAtLength(fn.a, fn.b[k])[1], fn.a.x, fn.a.w)
       /\ fn.out[1][k][1] = Frame
       /\ inside(getPointAtLength(fn.a, fn.b[k])[2], fn.a.y, fn.a.h)
       /\ fn.out[1][k][2] > 0
       /\ fn.out[1][k][2] < Frame

\* ---- normalizeWinding ------------------------------------------------------
\* C4: normalizeWinding(normalizeWinding(p, true), true) equals
\* normalizeWinding(p, true) for every p, zero signed area included.
C4_WindingIdempotent ==
  (fn.op = "normalizeWinding" /\ fn.c = TRUE /\ Len(fn.out) = 2) =>
    fn.out[2] = fn.out[1]

\* twice the signed area of the polygon, without rounding, in 1/Unit^2
ExactArea2(pts) ==
  LET term(i) == pts[i][1] * pts[(i % Len(pts)) + 1][2]
                   - pts[(i % Len(pts)) + 1][1] * pts[i][2]
      sum[i \in 0..Len(pts)] == IF i = 0 THEN 0 ELSE sum[i - 1] + term(i)
  IN  sum[Len(pts)]

C7_InterpolationBoundary ==
  fn.op = "onUpdate" =>
    /\ fn.t = 0 => fn.out[1] = fn.a
    /\ fn.t = One => fn.out[1] = fn.b

Between(v, a, b) ==
  (IF a <= b THEN a ELSE b) <= v /\ v <= (IF a <= b THEN b ELSE a)

\* C16: for every progress value t with 0 < t < 1 and every index i, each
\* coordinate of from[i] + (to[i] - from[i]) * t lies between the
\* corresponding coordinates of from[i] and to[i], bounds included.
C16_InterpolationBetween ==
  (fn.op = "onUpdate" /\ 0 < fn.t /\ fn.t < One) =>
    \A i \in 1..Len(fn.a) : \A c \in 1..2 :
      Between(fn.out[1][i][c], fn.a[i][c], fn.b[i][c])

\* a blend strictly between two coordinates whose difference is rounded
C16_Witness ==
  /\ fn.op = "onUpdate"
  /\ 0 < fn.t
  /\ fn.t < One
  /\ \E i \in 1..Len(fn.a) :
       /\ Sub(fn.b[i][1], fn.a[i][1]) # fn.b[i][1] - fn.a[i][1]
       /\ fn.out[1][i][1] # fn.a[i][1]
       /\ fn.out[1][i][1] # fn.b[i][1]
       /\ Between(fn.out[1][i][1], fn.a[i][1], fn.b[i][1])

\* ================================================ claims on the scroller ====
\* goTo has passed its guard in this step: it has registered its timeout
navigated == Len(timers') > Len(timers)
lockPending(tm) == \E k \in 1..Len(tm) : tm[k].kind = "isAnimating"

\* C19: one gesture moves at most one screen: every accepted wheel, swipe or
\* arrow/page-key gesture scrolls to the screen clamp(a + 1) or clamp(a - 1),
\* a being the active index at that moment, and no further navigation, from
\* whatever event, is accepted until the lockMs timeout of the accepted one
\* has fired; the scroller scrolls at no other time.
C19_OneScreenPerGesture ==
  [][/\ navigated =>
          /\ ~lockPending(timers)
          /\ ~slide.isAnimating
          /\ \E k \in 1..Len(timers') :
               timers'[k] = [kind |-> "isAnimating", left |-> lockMs]
          /\ lastEvent'.kind \in {"wheel", "swipe", "key"} =>
               /\ lastEvent'.dir \in {-1, 1}
               /\ page'.scrollY
                    = clampIndex(page.scrollY + lastEvent'.dir, page.screens)
               /\ Abs(page'.scrollY - page.scrollY) <= 1
     /\ (~navigated /\ page'.scrollY # page.scrollY)
          => lastEvent'.kind = "scroll"
     /\ (slide.isAnimating /\ ~slide'.isAnimating)
          => (timers[1].kind = "isAnimating" /\ timers[1].left = 0)]_vars

\* a wheel gesture was accepted and moved one screen down; a key pressed
\* while both of its timeouts were pending has moved nothing
C19_Witness ==
  /\ page.screens = 3
  /\ page.scrollY = 1
  /\ slide.currentIndex = 1
  /\ slide.isAnimating
  /\ slide.gestureLock
  /\ Len(timers) = 2
  /\ timers[1].kind = "isAnimating"
  /\ timers[1].left < lockMs
  /\ timers[1].left > 0
  /\ timers[2].kind = "gestureLock"
  /\ lastEvent = [kind |-> "key", dir |-> 1]

\* C20: with prefers-reduced-motion no sequence of user events (scroll,
\* wheel, touch, key, carousel next/prev) starts an animation or a tween;
\* slide scrolling, entry timelines, parallax and scroll fade are not
\* installed and every slide is is-active from the start.
C20_ReducedMotionRespected ==
  page.reduceMotion =>
    /\ tweens = <<>>
    /\ morphTween = "null"
    /\ trackTween.kind = "none"
    /\ ~slide.installed
    /\ timers = <<>>
    /\ ~slideRevealInstalled(page)
    /\ ~parallaxInstalled(page)
    /\ \A i \in 1..page.screens : page.active[i]

\* ================================================== claims on the carousel ====
K == Len(shapesPoints)
advance == trackTween.kind = "none" /\ trackTween'.kind # "none"
engineOn == hasShape /\ K >= 1

\* C3: a morphShape call that finds a tween running kills it and sets
\* morphState.t to 0 before the new tween starts; from then on every rendered
\* outline is a blend of the new pair only: from a library entry towards a
\* rotation of the entry at the cursor, never a frame of the killed tween.
C3_TransitionCancellation ==
  [][/\ (advance /\ engineOn) =>
          /\ morphState'.t = 0
          /\ shapeD' = shapeD
          /\ Len(tweens') = 1
          /\ tweens'[1].p = 0
          /\ tweens'[1].from = shapesPoints[shapeIndex + 1]
          /\ tweens'[1].to
               = rotateToMatch(tweens'[1].from, shapesPoints[shapeIndex' + 1])
     /\ shapeD' # shapeD =>
          /\ Len(tweens) = 1
          /\ tweens[1].to
               = rotateToMatch(tweens[1].from, shapesPoints[shapeIndex + 1])
          /\ shapeD' = pointsToPath(Interp(tweens[1].from, tweens[1].to,
                                           morphState'.t))]_vars

\* a tween was killed in mid-flight and the new tween has rendered a frame
C3_Witness ==
  /\ cancelled
  /\ Len(tweens) = 1
  /\ tweens[1].p > 0
  /\ morphState.t > 0
  /\ morphState.t < One
  /\ shapeD = pointsToPath(Interp(tweens[1].from, tweens[1].to, morphState.t))

Sign(x) == IF x < 0 THEN -1 ELSE IF x > 0 THEN 1 ELSE 0

\* C5: in every state after initMorphing all point sets of shapesPoints have
\* the same length and polygonArea has the same sign for every one of them.
C5_LibraryUniform ==
  \A i \in 1..K :
    /\ Len(shapesPoints[i]) = Len(shapesPoints[1])
    /\ Sign(polygonArea(shapesPoints[i])) = Sign(polygonArea(shapesPoints[1]))
    /\ Sign(polygonArea(shapesPoints[i])) # 0

\* a library built from outlines of both windings, after a finished morph
C5_Witness ==
  /\ K >= 2
  /\ shapesPoints[1] = Reverse(RawCcw)
  /\ shapesPoints[2] = RawFlat
  /\ morphTween = "done"
  /\ shapeIndex = 1

\* C6: with K >= 1 shapes morphShape('next') sets shapeIndex to
\* (shapeIndex + 1) mod K and morphShape('prev') to (shapeIndex - 1 + K) mod K,
\* and shapeIndex stays an integer of [0, K).
C6_CursorWraps ==
  [][engineOn =>
       /\ shapeIndex \in 0..(K - 1)
       /\ shapeIndex' \in 0..(K - 1)
       /\ (advance /\ trackTween'.kind = "next")
            => shapeIndex' = (shapeIndex + 1) % K
       /\ (advance /\ trackTween'.kind = "prev")
            => shapeIndex' = (shapeIndex - 1 + K) % K
       /\ ~advance => shapeIndex' = shapeIndex]_vars

\* the cursor has just wrapped from 0 to K - 1 on a prev
C6_Witness ==
  /\ hasShape
  /\ K = 3
  /\ trackTween.kind = "prev"
  /\ shapeIndex = K - 1

\* C8 (its final state): once the tween of a transition has finished, t is 1
\* and the displayed outline is the serialization of the aligned target, the
\* library shape at the cursor rotated against the source of the transition.
C8_FinalOutlineIsTarget ==
  (engineOn /\ morphTween = "done") =>
    /\ morphState.t = One
    /\ tweens = <<>>
    /\ \E f \in {shapesPoints[i] : i \in 1..K} :
         shapeD = pointsToPath(rotateToMatch(f, shapesPoints[shapeIndex + 1]))

\* C13: at most one morph tween is live in every reachable state: a tween
\* replaced by a later advance never again writes morphState.t or the d
\* attribute, which so have a single writer, the newest tween, for every
\* interleaving of advances and animation frames.
C13_SingleLiveTween ==
  [][/\ Len(tweens) <= 1
     /\ Len(tweens') <= 1
     /\ Len(tweens') = 1 => morphTween' = "live"
     /\ (~advance /\ (morphState' # morphState \/ shapeD' # shapeD)) =>
          /\ morphTween = "live"
          /\ Len(tweens) = 1
          /\ tweens[1].p < TSteps
          /\ tweens' \in {<<>>} \cup
                         {<<[tweens[1] EXCEPT !.p = q]>> :
                            q \in (tweens[1].p + 1)..TSteps}]_vars

\* the tween that replaced a killed one is alone and about to render its
\* first frame over the outline the killed tween left
C13_Witness ==
  /\ cancelled
  /\ morphTween = "live"
  /\ Len(tweens) = 1
  /\ tweens[1].p = 0
  /\ morphState.t = 0
  /\ \A i \in 1..K : shapeD # pointsToPath(shapesPoints[i])

\* C14: after initialization the library is read-only and the cursor has one
\* writer: no advance, alignment, frame or cancellation changes the contents
\* or the order of shapesPoints, and only morphShape changes shapeIndex.
C14_LibraryReadOnly ==
  [][/\ shapesPoints' = shapesPoints
     /\ shapeIndex' # shapeIndex => advance]_vars

\* an alignment has rotated its copy of the target, a frame has rendered,
\* and the library entry at the cursor is still the unrotated one
C14_Witness ==
  /\ engineOn
  /\ Len(tweens) = 1
  /\ tweens[1].p > 0
  /\ tweens[1].to # shapesPoints[shapeIndex + 1]
  /\ shapesPoints[shapeIndex + 1] \in {normalizeWinding(r, TRUE) : r \in RawShapes}

\* C15: for every transition morphShape starts, another one in flight or
\* not, the source is the library entry at the cursor before the advance and
\* the target a cyclic rotation of the entry at the cursor after it; the
\* source is never a set of partially interpolated points.
C15_SourceIsLibraryEntry ==
  [][(advance /\ engineOn) =>
       LET tw == tweens'[Len(tweens')]
           N == Len(tw.from)
       IN  /\ tw.from = shapesPoints[shapeIndex + 1]
           /\ \E b \in 0..(N - 1) :
                tw.to = [i \in 1..N |->
                           shapesPoints[shapeIndex' + 1][((i - 1 + b) % N) + 1]]
           /\ tw.from \in {shapesPoints[i] : i \in 1..K}
           /\ tw.p = 0]_vars

\* a transition started over one in mid-flight: what is displayed is a
\* blend, the source of the new tween is the library entry left behind
C15_Witness ==
  /\ cancelled
  /\ K = 3
  /\ Len(tweens) = 1
  /\ tweens[1].p = 0
  /\ trackTween.kind = "next"
  /\ tweens[1].from = shapesPoints[((shapeIndex + K - 1) % K) + 1]
  /\ shapeD # pointsToPath(tweens[1].from)

C22_PathShape ==
  fn.op = "pointsToPath" =>
    LET d == fn.out[1]
        n == Len(fn.a)
    IN  IF n = 0 THEN d = <<>>
        ELSE /\ Len(d) = n + 1
             /\ d[1] = <<"M", ToFixed(fn.a[1][1]), ToFixed(fn.a[1][2])>>
             /\ \A i \in 2..n :
                  d[i] = <<"L", ToFixed(fn.a[i][1]), ToFixed(fn.a[i][2])>>
             /\ d[n + 1] = <<"Z">>
             /\ Cardinality({i \in 1..Len(d) : d[i][1] = "M"}) = 1
             /\ Cardinality({i \in 1..Len(d) : d[i][1] = "Z"}) = 1

\* a path of three or more points that differ
C22_Witness ==
  /\ fn.op = "pointsToPath"
  /\ Len(fn.a) >= 3
  /\ fn.a[1] # fn.a[2]
  /\ fn.a[2] # fn.a[3]
  /\ Len(fn.out[1]) = Len(fn.a) + 1

\* the empty sequence serialised
C22_WitnessEmpty ==
  fn.op = "pointsToPath" /\ fn.a = <<>> /\ fn.out[1] = <<>>

\* ============================== claims on the restrained controller ====
\* C21: a slide the observer reports intersecting is is-active; a slide that
\* is is-active stays is-active in every step, whatever entry the observer
\* reports; with reduced motion every slide is is-active in every state.
C21_ActivationMonotone ==
  /\ [](restrained.lastEntry.isIntersecting
          => restrained.active[restrained.lastEntry.target])
  /\ [](restrained.reduceMotion
          => \A i \in 1..restrained.screens : restrained.active[i])
  /\ [][\A i \in 1..restrained.screens :
          restrained.active[i] => restrained'.active[i]]_vars

\* the observer has reported a slide as no longer intersecting that became
\* is-active earlier, while another slide never was activated
C21_Witness ==
  /\ ~restrained.reduceMotion
  /\ restrained.lastEntry.target > 0
  /\ ~restrained.lastEntry.isIntersecting
  /\ restrained.active[restrained.lastEntry.target]
  /\ \E i \in 1..restrained.screens : ~restrained.active[i]

\* C23: whenever isScrolling is true it becomes false again, in every run of
\* the scroll-snap controller in which due timeouts are called and time
\* passes, whatever scroll, wheel and touch events arrive.
C23_ScrollLockReleased ==
  restrained.isScrolling ~> ~restrained.isScrolling

\* the lock held with no timeout left that releases it: every later
\* snapToScreen returns at line 21
C23_LockStuck ==
  /\ restrained.isScrolling
  /\ \A k \in 1..Len(restrained.timeouts) :
       restrained.timeouts[k].kind # "release"

\* ===================================== claims on the entry timelines ====
\* C24: in no state has a screen that the observer reported intersecting
\* last had its reset run after the restart of its entry timeline.
C24_NoResetWhileIntersecting ==
  \A s \in 1..reveal.screens :
    (reveal.installed /\ reveal.active[s]) => reveal.last[s] # "reset"

\* ============================================= claims on the date picker ====
\* C25: once the events pointerdown, focus and click of one click on the
\* date input have been handled, the click having come with the calendar
\* closed and the input without the focus, the calendar is open: isOpen is
\* true and the class is-open is set.
C25_ClickOpensCalendar ==
  (/\ picker.gesture = "clickInput"
   /\ picker.events = <<>>
   /\ ~picker.wasOpen
   /\ ~picker.wasFocused)
  => (picker.isOpen /\ picker.isOpenClass)

\* ====================================== claims on the carousel's track ====
\* C26: whenever no shift is under way, exactly one dot is is-active and it
\* is the dot of the card that is first in the track, cards being numbered
\* by their original position.
C26_DotFollowsFirstCard ==
  trackTween.kind = "none" =>
    /\ Cardinality({i \in 1..Len(dots) : dots[i]}) = 1
    /\ dots[track[1]]

\* ================================== claims on the slide scroller's locks ====
pendingOf(kind) == {k \in 1..Len(timers) : timers[k].kind = kind}

\* C27: while isAnimating is true exactly one timeout is pending that clears
\* it, and the same for gestureLock; in every run in which due timeouts are
\* called and time passes, a lock that is set is followed by a state with
\* both locks clear, whatever events arrive; and a key, swipe, hash or
\* resize event handled with isAnimating clear is accepted by goTo.
C27_LocksReleased ==
  /\ [](slide.isAnimating => Cardinality(pendingOf("isAnimating")) = 1)
  /\ [](slide.gestureLock => Cardinality(pendingOf("gestureLock")) = 1)
  /\ (slide.isAnimating \/ slide.gestureLock)
       ~> (~slide.isAnimating /\ ~slide.gestureLock)
  /\ [][(/\ ~slide.isAnimating
         /\ lastEvent' # lastEvent
         /\ lastEvent'.kind \in {"key", "swipe", "home", "end", "hash",
                                 "resize"})
        => (slide'.isAnimating /\ navigated)]_vars

\* both locks clear and no timeout left after a wheel gesture that set both
C27_Witness ==
  /\ lastEvent.kind = "wheel"
  /\ ~slide.isAnimating
  /\ ~slide.gestureLock
  /\ timers = <<>>
  /\ slide.wheelAge > 0

RotateLeft(tr) == IF tr = <<>> THEN tr ELSE Tail(tr) \o <<Head(tr)>>
RotateRight(tr) ==
  IF tr = <<>> THEN tr ELSE <<tr[Len(tr)]>> \o SubSeq(tr, 1, Len(tr) - 1)

\* C28: while isAnimating stays true no shift acts on the track, its tween,
\* the displayed card or the shape cursor; a shift is accepted only with
\* isAnimating false and sets it; the completion of a shiftNext moves the
\* first card to the end and an accepted shiftPrev moves the last card to
\* the front, the track changing in no other step, so that the cards keep
\* their number and cyclic order; and moving the first card to the end and
\* then the last card to the front gives the track back.
C28_ShiftRotates ==
  /\ [](insertFirst(appendChild(track, track[1]),
                    appendChild(track, track[1])[Len(track)]) = track)
  /\ [][/\ (isAnimating /\ isAnimating')
             => UNCHANGED <<track, trackTween, serviceCard, shapeIndex>>
        /\ trackTween' # trackTween
             => \/ ~isAnimating /\ isAnimating' /\ trackTween.kind = "none"
                \/ isAnimating /\ ~isAnimating' /\ trackTween'.kind = "none"
        /\ (trackTween.kind = "next" /\ trackTween'.kind = "none")
             => track' = RotateLeft(track)
        /\ (trackTween.kind = "none" /\ trackTween'.kind = "prev")
             => track' = RotateRight(track)
        /\ track' # track
             => \/ trackTween.kind = "next" /\ trackTween'.kind = "none"
                \/ trackTween.kind = "none" /\ trackTween'.kind = "prev"
        /\ Len(track') = Len(track)
        /\ \E k \in 0..(Len(track) - 1) :
             \A i \in 1..Len(track) :
               track'[i] = track[((i - 1 + k) % Len(track)) + 1]]_vars

\* three or more cards, rotated by completed shifts, no shift under way
C28_Witness ==
  /\ Len(track) >= 3
  /\ track[1] = 2
  /\ track[Len(track)] = 1
  /\ ~isAnimating
  /\ trackTween.kind = "none"

====
